---- MODULE Spec2Model ----
(***************************************************************************)
(* kas: the repository synchronizer (libkas.repo_fetch, repo_checkout),    *)
(* the process runner (libkas.run_cmd), the declarative resolution loop    *)
(* (config.ConfigStatic.__init__), layer filtering (get_repo_dict) and the *)
(* command pipeline (shell.Shell.run with the configuration's hooks).      *)
(***************************************************************************)
EXTENDS Integers, Sequences, FiniteSets, TLC

VARIABLES
    \* ---- repository synchronizer: one repository, a sequence of calls
    sRepo,      \* the Repo descriptor handed to repo_fetch / repo_checkout
    sW,         \* the working copy at repo.path
    sRefDir,    \* get_repo_ref_dir() is set and the reference directory exists
    sLast,      \* the latest call: its name, what it did, the state it found
    sPrev,      \* the call before it
    sTerm,      \* how the tool has terminated, if it has
    sN,         \* number of calls made
    \* ---- process runner: run_cmd calls, one after the other
    rPc,        \* "idle", "streaming" (inside run_until_complete), "exited"
    fail,       \* run_cmd's fail argument
    process,    \* the subprocess: running or exited, and its return code
    pipe,       \* per stream: lines written by the subprocess, not yet read
    emitted,    \* per stream: every line the subprocess has written
    reader,     \* per stream: the _read_stream task, "reading" or "done"
    logo,       \* LogOutput: per stream, the objects given to the callback
    warnings,   \* decode warnings logged during the call
    loop,       \* the current asyncio event loop, "open" or "closed"
    loops,      \* event loops run_cmd has created with new_event_loop()
    loopTasks,  \* reader tasks scheduled on the current event loop so far
    retval,     \* what the latest run_cmd call returned, NoValue if nothing
    logged,     \* the error message logged by run_cmd, NoValue if none
    rTerm,      \* how the tool has terminated, if it has
    status,     \* exit status of the tool once main has ended, else -1
    rCalls,     \* number of run_cmd calls started
    \* ---- get_repo_dict: the layers of one repository entry
    layers_dict,    \* the entry's 'layers' mapping, in declaration order
    layers,         \* the layer list of the Repo built from it, once built
    lPc,            \* "config" before get_repo_dict has run, "done" after
    \* ---- command pipeline: Shell.run's macro over a loaded configuration
    cfgKind,    \* "python" (ConfigPython) or "static" (ConfigStatic)
    cfgDefs,    \* the names a scriptable document defines (keys of _config)
    skip,       \* args.skip: the step names to skip
    pStep,      \* index of the step the macro is at
    pPhase,     \* where it is within that step
    pTrace,     \* the calls made so far, in order
    shellRc,    \* exit status of the spawned shell, -1 before it ran
    pTerm,      \* how the tool has terminated, if it has
    pStatus,    \* exit status of the tool once main has ended, else -1
    tried,      \* the sub-commands whose run(args) kas has called, in order
    \* ---- declarative resolution: ConfigStatic.__init__
    includes,   \* per document, the repositories its includes go through
    entries,    \* per repository name, its entry in some document's 'repos'
    wc,         \* per repository name, the working copy at its path
    pc,         \* "parsing", "awaiting-fetch", "converged", "failed", "fatal", "crashed", "idle"
    phase,      \* within awaiting-fetch: "fetch" or "checkout" of missing_repos[idx]
    idx,        \* position of the for loop in missing_repos
    round,      \* number of get_config passes made
    repos,      \* the known repositories handed to get_config
    config,     \* self._config: the documents merged by the latest pass
    missing_repos,      \* the latest pass's missing repositories
    missing_repos_old,  \* the list the next pass is compared with
    missing_prev,       \* the missing repositories of the pass before the latest
    roundOps,   \* repo_fetch / repo_checkout calls made since the latest pass
    zTerm,      \* how the tool has terminated, if it has
    zCall,      \* the latest repo_fetch / repo_checkout call of the loop
    \* ---- scriptable resolution: ConfigPython
    pyDefs,     \* the names the executed document defines (self._config)
    pyTarget,   \* the target handed to the constructor
    pyPc,       \* "new", "ready" (constructed), "called", "raised", "idle"
    pyGetter,   \* the getter called last
    pyResult,   \* what it returned
    pyTerm      \* the exception that ended the construction or the call

VARIABLES
    repo_config_dict, \* the 'repos' mapping of the merged configuration
    repo_dict,        \* get_repo_dict's result so far: key and descriptor pairs
    dPc,              \* "idle", "loop", "returned" or "exited"
    dTerm             \* how get_repo_dict ended, Running while it has not

syncVars == <<sRepo, sW, sRefDir, sLast, sPrev, sTerm, sN>>
runVars == <<rPc, fail, process, pipe, emitted, reader, logo, warnings, loop,
             loops, loopTasks,
             retval, logged, rTerm, status, rCalls>>

layerVars == <<layers_dict, layers, lPc>>

pipeVars == <<cfgKind, cfgDefs, skip, pStep, pPhase, pTrace, shellRc, pTerm,
              pStatus, tried>>

resVars == <<includes, entries, wc, pc, phase, idx, round, repos, config,
             missing_repos, missing_repos_old, missing_prev, roundOps, zTerm,
             zCall>>

pyVars == <<pyDefs, pyTarget, pyPc, pyGetter, pyResult, pyTerm>>

descVars == <<repo_config_dict, repo_dict, dPc, dTerm>>

vars == <<syncVars, runVars, layerVars, pipeVars, resVars, pyVars, descVars>>

----------------------------------------------------------------------------
(* Termination of the tool: sys.exit(code) raises SystemExit, everything   *)
(* else that ends a run is an exception of some class.                     *)

Running == [kind |-> "none", code |-> 0]
SystemExit(code) == [kind |-> "SystemExit", code |-> code]
Raised(cls) == [kind |-> cls, code |-> 0]

\* kas.main: SystemExit is no Exception, so it passes the handler and the
\* interpreter exits with its code (one byte); any Exception exits with 1.
main_status_rewritten(term) == 1

main_status(term) ==
    IF term.kind = "none" THEN 0
    ELSE IF term.kind = "SystemExit" THEN term.code % 256
    ELSE 1

----------------------------------------------------------------------------
(* git, as far as the synchronizer observes it.                            *)

\* Commit ids as `git rev-parse --verify HEAD' prints them.
CommitIds == {"c1", "c2"}
\* A refspec is a commit id, a symbolic name (branch or tag), or not given.
NoRefspec == "None"
Refspecs == {"c1", "master", NoRefspec}
\* The commit a refspec names once its object is in the local store.
Resolve(refspec) == IF refspec \in CommitIds THEN refspec ELSE "c1"
\* Exit code of a failing git command.
GitFatal == 128

AbsentCopy == [exists |-> FALSE, dirty |-> FALSE, head |-> "none", hasRef |-> FALSE]
PresentCopies ==
    [exists : {TRUE}, dirty : BOOLEAN, head : CommitIds \cup {"none"}, hasRef : BOOLEAN]
WorkingCopies == {AbsentCopy} \cup PresentCopies
\* What `git clone' leaves behind: a clean copy on the remote's default branch.
ClonedCopies == {w \in PresentCopies : ~w.dirty /\ w.head \in CommitIds}

\* One run_cmd call as the synchronizer issues it.
Cmd(git, fl, env, cwd) == [git |-> git, fail |-> fl, env |-> env, cwd |-> cwd]

\* The outcome of one repo_fetch / repo_checkout call.
Outcome(w, cmds, term, warn, fs) ==
    [w |-> w, cmds |-> cmds, term |-> term, warn |-> warn, fs |-> fs]

----------------------------------------------------------------------------
(* libkas.repo_fetch                                                       *)

\* The clone never takes the reference directory.
fetch_clone_plain(repo, w, refdir) ==
    LET clone == Cmd("clone -q", TRUE, "config.environ", "kas_work_dir")
    IN  {Outcome(nw, <<clone>>, Running, FALSE, TRUE) : nw \in ClonedCopies}
        \cup {Outcome(w, <<clone>>, SystemExit(GitFatal), FALSE, TRUE)}

fetch_clone(repo, w, refdir) ==
    LET clone == Cmd(IF refdir THEN "clone --reference" ELSE "clone -q",
                     TRUE, "config.environ", "kas_work_dir")
    IN  {Outcome(nw, <<clone>>, Running, FALSE, TRUE) : nw \in ClonedCopies}
        \cup {Outcome(w, <<clone>>, SystemExit(GitFatal), FALSE, TRUE)}

fetch_update(repo, w) ==
    LET cat   == Cmd("cat-file -t", FALSE, "config.environ", "repo.path")
        fetch == Cmd("fetch --all", FALSE, "config.environ", "repo.path")
    IN  IF repo.refspec = NoRefspec
        THEN \* ' '.join(cmd) with a None element
             {Outcome(w, <<>>, Raised("TypeError"), FALSE, FALSE)}
        ELSE IF w.hasRef
        THEN {Outcome(w, <<cat>>, Running, FALSE, FALSE)}
        ELSE {Outcome([w EXCEPT !.hasRef = h], <<cat, fetch>>, Running, FALSE, TRUE) :
                  h \in BOOLEAN}
             \cup {Outcome(w, <<cat, fetch>>, Running, TRUE, FALSE)}

fetch_enabled(repo, w, refdir) ==
    IF ~w.exists THEN fetch_clone(repo, w, refdir) ELSE fetch_update(repo, w)

repo_fetch_nocheck(repo, w, refdir) == fetch_enabled(repo, w, refdir)

repo_fetch(repo, w, refdir) ==
    IF repo.git_operation_disabled
    THEN {Outcome(w, <<>>, Running, FALSE, FALSE)}
    ELSE fetch_enabled(repo, w, refdir)

----------------------------------------------------------------------------
(* libkas.repo_checkout                                                    *)

\* output.strip() == repo.refspec: the printed commit id against the
\* configured string.
head_matches_unstripped(repo, w) == FALSE

head_matches(repo, w) == w.head = repo.refspec

checkout_clean(repo, w) ==
    LET diff == Cmd("diff --shortstat", FALSE, "config.environ", "repo.path")
        revp == Cmd("rev-parse --verify HEAD", TRUE, "config.environ", "repo.path")
        co   == Cmd("checkout -q", TRUE, "none", "repo.path")
    IN  IF w.head = "none"
        THEN {Outcome(w, <<diff, revp>>, SystemExit(GitFatal), FALSE, FALSE)}
        ELSE IF head_matches(repo, w)
        THEN {Outcome(w, <<diff, revp>>, Running, FALSE, FALSE)}
        ELSE IF repo.refspec # NoRefspec /\ w.hasRef
        THEN {Outcome([w EXCEPT !.head = Resolve(repo.refspec)],
                      <<diff, revp, co>>, Running, FALSE, TRUE)}
        ELSE {Outcome(w, <<diff, revp, co>>, SystemExit(1), FALSE, FALSE)}

checkout_dirty(repo, w) ==
    LET diff == Cmd("diff --shortstat", FALSE, "config.environ", "repo.path")
    IN  {Outcome(w, <<diff>>, Running, TRUE, FALSE)}

checkout_enabled_forced(repo, w) ==
    IF ~w.exists
    THEN {Outcome(w, <<>>, Raised("OSError"), FALSE, FALSE)}
    ELSE checkout_clean(repo, w)

checkout_enabled(repo, w) ==
    IF ~w.exists
    THEN \* the subprocess cannot be spawned in a cwd that does not exist
         {Outcome(w, <<>>, Raised("OSError"), FALSE, FALSE)}
    ELSE IF w.dirty THEN checkout_dirty(repo, w) ELSE checkout_clean(repo, w)

repo_checkout_nocheck(repo, w) == checkout_enabled(repo, w)

repo_checkout(repo, w) ==
    IF repo.git_operation_disabled
    THEN {Outcome(w, <<>>, Running, FALSE, FALSE)}
    ELSE checkout_enabled(repo, w)

----------------------------------------------------------------------------
(* The synchronizer driven call by call on one repository.                 *)

MaxCalls == 3

Repos == [git_operation_disabled : BOOLEAN, refspec : Refspecs]

NoCall == [op |-> "none", cmds |-> <<>>, warn |-> FALSE, fs |-> FALSE,
           pre |-> AbsentCopy]

Call(op, pre, res) ==
    [op |-> op, cmds |-> res.cmds, warn |-> res.warn, fs |-> res.fs, pre |-> pre]

\* C14: every git command a repo_fetch or repo_checkout call spawns (clone,
\* cat-file, fetch --all, diff, rev-parse, checkout) is run with
\* config.environ passed as its environment.
C14_EnvironInjected ==
    \A i \in DOMAIN sLast.cmds : sLast.cmds[i].env = "config.environ"

----------------------------------------------------------------------------
(* libkas.run_cmd, _stream_subprocess, _read_stream and LogOutput.         *)

Streams == {"stdout", "stderr"}
\* Lines as the subprocess writes them (bytes); "bad" is not valid UTF-8.
TextLines == {"a", "b"}
RawLines == TextLines \cup {"bad"}
\* process.wait(): an exit code, or minus the signal that killed it.
RetCodes == {0, 3, -9}
NoValue == [none |-> TRUE]

\* Lines the subprocess writes per stream, at most.
MaxOut == 2
MaxErr == 1
MaxLines(s) == IF s = "stdout" THEN MaxOut ELSE MaxErr
\* run_cmd calls one run makes, at most.
MaxRuns == 2

\* _read_stream, one line: what reaches the callback. decode('utf-8') gives a
\* str; on UnicodeDecodeError a warning is logged and `line' still holds the
\* bytes read, which are not empty, so the callback gets them.
read_line_dropping(raw) ==
    IF raw \in TextLines THEN <<[type |-> "str", text |-> raw]>> ELSE <<>>

read_line(raw) ==
    IF raw \in TextLines THEN <<[type |-> "str", text |-> raw]>>
    ELSE <<[type |-> "bytes", text |-> raw]>>

HasBytes(buf) == \E i \in DOMAIN buf : buf[i].type = "bytes"
Texts(buf) == [i \in DOMAIN buf |-> buf[i].text]

\* asyncio.wait([...]) with the default ALL_COMPLETED.
wait_first_completed(rd) == \E s \in Streams : rd[s] = "done"

wait_all_completed(rd) == \A s \in Streams : rd[s] = "done"

\* run_cmd after run_until_complete: the fail-fast decision or the return.
\*   msg += line  and  ''.join(logo.stdout)  raise TypeError on bytes.
run_cmd_ignoring_fail(retc, fl, lg) ==
    IF HasBytes(lg["stdout"])
    THEN [term |-> Raised("TypeError"), logged |-> NoValue, retval |-> NoValue]
    ELSE [term |-> Running, logged |-> NoValue,
          retval |-> [retc |-> retc, stdout |-> Texts(lg["stdout"])]]

run_cmd_result(retc, fl, lg) ==
    IF retc # 0 /\ fl
    THEN IF HasBytes(lg["stderr"])
         THEN [term |-> Raised("TypeError"), logged |-> NoValue, retval |-> NoValue]
         ELSE [term |-> SystemExit(retc),
               logged |-> [cmd |-> "cmdstr", cwd |-> "cwd",
                           stderr |-> Texts(lg["stderr"])],
               retval |-> NoValue]
    ELSE IF HasBytes(lg["stdout"])
    THEN [term |-> Raised("TypeError"), logged |-> NoValue, retval |-> NoValue]
    ELSE [term |-> Running, logged |-> NoValue,
          retval |-> [retc |-> retc, stdout |-> Texts(lg["stdout"])]]

\* if asyncio.get_event_loop().is_closed(): a new loop is made and set.
needs_new_loop(state) == state = "closed"

\* loop.close() after run_until_complete.
loop_left_open == "open"

loop_after_call == "closed"

Empty == [s \in Streams |-> <<>>]

RunIdle ==
    /\ rPc = "idle"
    /\ fail = TRUE
    /\ process = [state |-> "none", retc |-> 0]
    /\ pipe = Empty /\ emitted = Empty /\ logo = Empty
    /\ reader = [s \in Streams |-> "done"]
    /\ warnings = 0
    /\ loop = "open"
    /\ loops = 0
    /\ loopTasks = 0
    /\ retval = NoValue /\ logged = NoValue
    /\ rTerm = Running
    /\ status = -1
    /\ rCalls = 0

\* run_cmd up to the spawn of the subprocess and of the two reader tasks.
RunCmdStart ==
    /\ rPc = "idle" /\ rTerm = Running /\ rCalls < MaxRuns
    /\ fail' \in BOOLEAN
    /\ logo' = Empty
    /\ loop' = "open"
    /\ loops' = IF needs_new_loop(loop) THEN loops + 1 ELSE loops
    /\ loopTasks' = IF needs_new_loop(loop) THEN 2 ELSE loopTasks + 2
    /\ process' = [state |-> "running", retc |-> 0]
    /\ pipe' = Empty /\ emitted' = Empty
    /\ reader' = [s \in Streams |-> "reading"]
    /\ warnings' = 0
    /\ retval' = NoValue /\ logged' = NoValue
    /\ rPc' = "streaming"
    /\ rCalls' = rCalls + 1
    /\ UNCHANGED <<rTerm, status>>
    /\ UNCHANGED <<syncVars, layerVars, pipeVars, resVars, pyVars, descVars>>

\* The subprocess writes a line to one of its streams.
ProcWrite ==
    /\ rPc = "streaming" /\ process.state = "running"
    /\ \E s \in Streams, raw \in RawLines :
        /\ Len(emitted[s]) < MaxLines(s)
        /\ pipe' = [pipe EXCEPT ![s] = Append(@, raw)]
        /\ emitted' = [emitted EXCEPT ![s] = Append(@, raw)]
    /\ UNCHANGED <<rPc, fail, process, reader, logo, warnings, loop, loops, loopTasks, retval,
                   logged, rTerm, status, rCalls>>
    /\ UNCHANGED <<syncVars, layerVars, pipeVars, resVars, pyVars, descVars>>

\* The subprocess exits; its ends of the pipes close.
ProcExit ==
    /\ rPc = "streaming" /\ process.state = "running"
    /\ \E rc \in RetCodes : process' = [state |-> "exited", retc |-> rc]
    /\ UNCHANGED <<rPc, fail, pipe, emitted, reader, logo, warnings, loop, loops, loopTasks,
                   retval, logged, rTerm, status, rCalls>>
    /\ UNCHANGED <<syncVars, layerVars, pipeVars, resVars, pyVars, descVars>>

\* One turn of a _read_stream task: a line, or end-of-stream.
ReadStream ==
    /\ rPc = "streaming"
    /\ \E s \in Streams :
        /\ reader[s] = "reading"
        /\ \/ /\ pipe[s] # <<>>
              /\ pipe' = [pipe EXCEPT ![s] = Tail(@)]
              /\ logo' = [logo EXCEPT ![s] = @ \o read_line(Head(pipe[s]))]
              /\ warnings' = warnings + (IF Head(pipe[s]) \in TextLines THEN 0 ELSE 1)
              /\ UNCHANGED reader
           \/ /\ pipe[s] = <<>> /\ process.state = "exited"
              /\ reader' = [reader EXCEPT ![s] = "done"]
              /\ UNCHANGED <<pipe, logo, warnings>>
    /\ UNCHANGED <<rPc, fail, process, emitted, loop, loops, loopTasks, retval, logged, rTerm,
                   status, rCalls>>
    /\ UNCHANGED <<syncVars, layerVars, pipeVars, resVars, pyVars, descVars>>

\* asyncio.wait and process.wait are over: loop.close(), then the rest of
\* run_cmd.
RunCmdFinish ==
    /\ rPc = "streaming"
    /\ wait_all_completed(reader)
    /\ process.state = "exited"
    /\ loop' = loop_after_call
    /\ LET r == run_cmd_result(process.retc, fail, logo)
       IN  /\ rTerm' = r.term
           /\ logged' = r.logged
           /\ retval' = r.retval
    /\ rPc' = "idle"
    /\ UNCHANGED <<fail, process, pipe, emitted, reader, logo, warnings, status,
                   rCalls, loops, loopTasks>>
    /\ UNCHANGED <<syncVars, layerVars, pipeVars, resVars, pyVars, descVars>>

\* kas.main: the run ends, by return, by SystemExit or by an Exception.
MainExit ==
    /\ rPc = "idle" /\ rCalls > 0
    /\ status' = main_status(rTerm)
    /\ rPc' = "exited"
    /\ UNCHANGED <<fail, process, pipe, emitted, reader, logo, warnings, loop, loops, loopTasks,
                   retval, logged, rTerm, rCalls>>
    /\ UNCHANGED <<syncVars, layerVars, pipeVars, resVars, pyVars, descVars>>

RunNext ==
    RunCmdStart \/ ProcWrite \/ ProcExit \/ ReadStream \/ RunCmdFinish \/ MainExit

SyncIdle ==
    /\ sRepo = [git_operation_disabled |-> TRUE, refspec |-> NoRefspec]
    /\ sW = AbsentCopy
    /\ sRefDir = FALSE
    /\ sLast = NoCall /\ sPrev = NoCall
    /\ sTerm = Running
    /\ sN = 0

\* The tool has ended after a run_cmd call with fail=True whose subprocess
\* exited with a code N > 0.
FailFastCase == rPc = "exited" /\ fail /\ process.retc > 0

\* C7: when run_cmd is called with fail=True and the subprocess exits with
\* code N > 0, the tool ends with exit status N, having logged the command,
\* its working directory and all of the captured standard-error.
C7_FailFastStatus ==
    FailFastCase
        => /\ status = process.retc
           /\ logged # NoValue
           /\ logged.stderr = emitted["stderr"]

\* The latest run_cmd call is over: it returned, exited or raised.
CallOver == rCalls > 0 /\ rPc \in {"idle", "exited"}

\* C8: when run_cmd returns or takes the fail-fast decision, both readers
\* have reached end-of-stream, the subprocess has exited, every line written
\* has reached the callbacks in the order written, and a returned stdout is
\* the sequence of all stdout lines in that order.
C8_CompleteCapture ==
    CallOver
        => /\ \A s \in Streams :
                /\ reader[s] = "done"
                /\ pipe[s] = <<>>
                /\ Texts(logo[s]) = emitted[s]
           /\ process.state = "exited"
           /\ retval # NoValue =>
                (retval.stdout = emitted["stdout"] /\ retval.retc = process.retc)
           /\ logged # NoValue => logged.stderr = emitted["stderr"]

\* Two stdout lines and a stderr line, all captured, the call returned.
C8_Witness ==
    /\ CallOver
    /\ retval # NoValue
    /\ retval.stdout = <<"a", "b">>
    /\ emitted["stderr"] = <<"a">>
    /\ rCalls = MaxRuns

\* The lines of a stream's output that are valid UTF-8, in the order written.
Decodable(raws) == SelectSeq(raws, LAMBDA raw : raw \in TextLines)
Undecodable(raws) == SelectSeq(raws, LAMBDA raw : raw \notin TextLines)

\* C13: when run_cmd is over and the subprocess wrote lines that are not
\* valid UTF-8, a warning was logged for each of them, no such line was
\* handed to a callback (the captured buffers hold exactly the decodable
\* lines), and unless the fail-fast case applies run_cmd returned normally
\* with the decodable stdout lines.
C13_UndecodableDropped ==
    CallOver
        => /\ warnings = Len(Undecodable(emitted["stdout"]))
                            + Len(Undecodable(emitted["stderr"]))
           /\ \A s \in Streams :
                /\ ~HasBytes(logo[s])
                /\ Texts(logo[s]) = Decodable(emitted[s])
           /\ (process.retc = 0 \/ ~fail)
                => /\ rTerm = Running
                   /\ retval # NoValue
                   /\ retval.stdout = Decodable(emitted["stdout"])

\* C23: while a run_cmd call streams, its event loop is open and carries
\* exactly the two reader tasks of this call; when the call is over both
\* readers are finished and the loop is closed; every call after the first
\* has made a new loop, so no task and no loop state passes from one call
\* to the next.
C23_SchedulerScoping ==
    /\ rPc = "streaming" => (loop = "open" /\ loopTasks = 2)
    /\ CallOver =>
            /\ loop = "closed"
            /\ loopTasks = 2
            /\ \A s \in Streams : reader[s] = "done"
    /\ rCalls > 0 => loops = rCalls - 1

\* C23 witness: the second run_cmd call found the first call's loop closed,
\* made a new one and has returned with that one closed too.
C23_Witness ==
    /\ CallOver
    /\ rCalls = 2
    /\ loops = 1
    /\ rTerm = Running
    /\ loop = "closed"

----------------------------------------------------------------------------
SyncStart ==
    /\ sRepo \in Repos
    /\ sW \in WorkingCopies
    /\ sRefDir \in BOOLEAN
    /\ sLast = NoCall
    /\ sPrev = NoCall
    /\ sTerm = Running
    /\ sN = 0

SyncApply(op, res) ==
    /\ sW' = res.w
    /\ sPrev' = sLast
    /\ sLast' = Call(op, sW, res)
    /\ sTerm' = res.term
    /\ sN' = sN + 1
    /\ UNCHANGED <<sRepo, sRefDir>>
    /\ UNCHANGED <<runVars, layerVars, pipeVars, resVars, pyVars, descVars>>

DoFetch ==
    /\ sTerm = Running /\ sN < MaxCalls
    /\ \E res \in repo_fetch(sRepo, sW, sRefDir) : SyncApply("repo_fetch", res)

DoCheckout ==
    /\ sTerm = Running /\ sN < MaxCalls
    /\ \E res \in repo_checkout(sRepo, sW) : SyncApply("repo_checkout", res)

SyncNext == DoFetch \/ DoCheckout

Issued(call, git) == \E i \in DOMAIN call.cmds : call.cmds[i].git = git

\* Two repo_checkout calls in succession, the first on a clean working copy.
TwoCheckouts ==
    /\ sPrev.op = "repo_checkout" /\ sLast.op = "repo_checkout"
    /\ sPrev.pre.exists /\ ~sPrev.pre.dirty

\* C4 as stated: whatever the refspec, the second of two successive
\* repo_checkout calls on a clean repository issues no 'git checkout'.
C4_SecondCheckoutIssuesNone ==
    TwoCheckouts => ~Issued(sLast, "checkout -q")

\* C4, amended: the second of two successive repo_checkout calls on a clean
\* repository issues no 'git checkout' when the refspec is a full commit id,
\* the string `git rev-parse --verify HEAD' prints; the working copy is then
\* left as it was.
C4_IdempotentForCommitId ==
    (TwoCheckouts /\ sRepo.refspec \in CommitIds)
        => (~Issued(sLast, "checkout -q") /\ sW = sLast.pre)

\* The first call moved HEAD to the refspec, the second found it there.
C4_Witness ==
    /\ TwoCheckouts /\ sRepo.refspec \in CommitIds
    /\ Issued(sPrev, "checkout -q")
    /\ Issued(sLast, "rev-parse --verify HEAD")
    /\ ~Issued(sLast, "checkout -q")

\* C5 as stated: on a working copy with uncommitted changes repo_checkout
\* issues neither 'git checkout' nor the HEAD lookup, logs a warning and
\* returns normally.
C5_DirtyWarnsAlways ==
    (sLast.op = "repo_checkout" /\ sLast.pre.dirty)
        => /\ ~Issued(sLast, "checkout -q")
           /\ ~Issued(sLast, "rev-parse --verify HEAD")
           /\ sLast.warn
           /\ sTerm = Running

\* C5, amended: on a working copy with uncommitted changes repo_checkout
\* issues neither 'git checkout' nor the HEAD lookup, leaves the working
\* copy as it is and returns normally; it logs the warning when git
\* operations are enabled for the repository, and says nothing when they
\* are disabled.
C5_DirtyNeverCheckedOut ==
    (sLast.op = "repo_checkout" /\ sLast.pre.dirty)
        => /\ ~Issued(sLast, "checkout -q")
           /\ ~Issued(sLast, "rev-parse --verify HEAD")
           /\ sLast.warn = ~sRepo.git_operation_disabled
           /\ sW = sLast.pre
           /\ sTerm = Running

\* A dirty copy whose HEAD is not at the refspec, git operations enabled.
C5_Witness ==
    /\ sLast.op = "repo_checkout" /\ sLast.pre.dirty
    /\ ~sRepo.git_operation_disabled
    /\ sLast.pre.head # sRepo.refspec
    /\ sLast.warn /\ sTerm = Running

\* C6: for a repository with git operations disabled, repo_fetch and
\* repo_checkout spawn no subprocess, do not touch the filesystem and
\* return normally, whatever the state of the working copy.
C6_DisabledShortCircuit ==
    (sRepo.git_operation_disabled /\ sLast.op # "none")
        => /\ sLast.cmds = <<>>
           /\ ~sLast.fs
           /\ sW = sLast.pre
           /\ sTerm = Running

\* Fetch of an absent path, then checkout, then fetch again, all no-ops.
C6_Witness ==
    /\ sRepo.git_operation_disabled
    /\ sN = MaxCalls
    /\ sPrev.op = "repo_checkout" /\ sLast.op = "repo_fetch"
    /\ ~sW.exists

\* The latest call was repo_fetch on an existing path of a repository with
\* git operations enabled.
PresentFetch ==
    sLast.op = "repo_fetch" /\ sLast.pre.exists /\ ~sRepo.git_operation_disabled

\* C22: when the path exists, repo_fetch (of a repository with git
\* operations enabled) first looks the refspec up with cat-file and spawns
\* `fetch --all' exactly when the lookup fails; whether the lookup or the
\* remote fetch fails, the call returns normally, a warning being logged
\* only for a failed remote fetch, and the run goes on to repo_checkout.
C22_PresentPathFetch ==
    PresentFetch
        => /\ sTerm = Running
           /\ Len(sLast.cmds) >= 1
           /\ sLast.cmds[1].git = "cat-file -t"
           /\ Issued(sLast, "fetch --all") <=> ~sLast.pre.hasRef
           /\ Len(sLast.cmds) <= 2
           /\ \A i \in DOMAIN sLast.cmds : ~sLast.cmds[i].fail
           /\ sLast.warn => Issued(sLast, "fetch --all")

----------------------------------------------------------------------------
(* config.ConfigStatic.get_repo_dict: the layer filter.  Strings are        *)
(* sequences of characters; a layer value is whatever the document holds:   *)
(* a string, a boolean, a number or nothing.                                *)

UpperCase == <<"A", "B", "C", "D", "E", "F", "G", "H", "I", "J", "K", "L", "M",
               "N", "O", "P", "Q", "R", "S", "T", "U", "V", "W", "X", "Y", "Z">>
LowerCase == <<"a", "b", "c", "d", "e", "f", "g", "h", "i", "j", "k", "l", "m",
               "n", "o", "p", "q", "r", "s", "t", "u", "v", "w", "x", "y", "z">>
Digits == <<"0", "1", "2", "3", "4", "5", "6", "7", "8", "9">>

W_disabled == <<"d", "i", "s", "a", "b", "l", "e", "d">>
W_Disabled == <<"D", "i", "s", "a", "b", "l", "e", "d">>
W_excluded == <<"e", "x", "c", "l", "u", "d", "e", "d">>
W_n == <<"n">>
W_no == <<"n", "o">>
W_NO == <<"N", "O">>
W_0 == <<"0">>
W_false == <<"f", "a", "l", "s", "e">>
W_enabled == <<"e", "n", "a", "b", "l", "e", "d">>
W_yes == <<"y", "e", "s">>
W_True == <<"T", "r", "u", "e">>
W_False == <<"F", "a", "l", "s", "e">>
W_None == <<"N", "o", "n", "e">>

StrValue(chars) == [type |-> "str", chars |-> chars]
BoolValue(b) == [type |-> "bool", b |-> b]
IntValue(n) == [type |-> "int", n |-> n]
NoneValue == [type |-> "NoneType"]

\* str(x) of a natural number.
RECURSIVE int_str(_)
int_str(n) ==
    IF n < 10 THEN <<Digits[n + 1]>> ELSE int_str(n \div 10) \o <<Digits[(n % 10) + 1]>>

\* str(x)
str(v) ==
    CASE v.type = "str" -> v.chars
      [] v.type = "bool" -> IF v.b THEN W_True ELSE W_False
      [] v.type = "int" -> int_str(v.n)
      [] v.type = "NoneType" -> W_None

lower_char(c) ==
    IF \E i \in DOMAIN UpperCase : UpperCase[i] = c
    THEN LowerCase[CHOOSE i \in DOMAIN UpperCase : UpperCase[i] = c]
    ELSE c

\* s.lower()
lower(chars) == [i \in DOMAIN chars |-> lower_char(chars[i])]

\* ['disabled', 'excluded', 'n', 'no', '0', 'false']
ExcludedWords == {W_disabled, W_excluded, W_n, W_no, W_0, W_false}

\* The filter's lambda: str(laydict[x]).lower() not in [...]
layer_kept_case_sensitive(v) == str(v) \notin ExcludedWords

layer_kept(v) == lower(str(v)) \notin ExcludedWords

\* list(filter(lambda x: ..., layers_dict)): the keys, in the mapping's order.
RECURSIVE filter_layers(_)
filter_layers(d) ==
    IF d = <<>> THEN <<>>
    ELSE (IF layer_kept(Head(d).value) THEN <<Head(d).key>> ELSE <<>>)
         \o filter_layers(Tail(d))

LayerKeys == {"a", "b", "c", "d"}
\* Values a document may give a layer.
LayerValues ==
    {StrValue(w) : w \in {W_disabled, W_Disabled, W_excluded, W_n, W_no, W_NO,
                          W_0, W_false, W_enabled, W_yes}}
    \cup {BoolValue(TRUE), BoolValue(FALSE), IntValue(0), IntValue(10), NoneValue}
\* Layers per mapping, at most, when every combination of values is tried.
MaxLayers == 2

Entry(k, v) == [key |-> k, value |-> v]

\* Mappings: sequences of entries with distinct keys.
LayerDicts(n) ==
    {d \in UNION {[1..m -> [key : LayerKeys, value : LayerValues]] : m \in 0..n} :
        \A i, j \in DOMAIN d : i # j => d[i].key # d[j].key}

\* {a: enabled, b: disabled, c: 0, d: yes}, with 0 as text and as a number.
ExampleDicts ==
    {<<Entry("a", StrValue(W_enabled)), Entry("b", StrValue(W_disabled)),
       Entry("c", c), Entry("d", StrValue(W_yes))>> : c \in {StrValue(W_0), IntValue(0)}}

LayerStart ==
    /\ layers_dict \in LayerDicts(MaxLayers) \cup ExampleDicts
    /\ layers = <<>>
    /\ lPc = "config"

LayerIdle ==
    /\ layers_dict = <<>>
    /\ layers = <<>>
    /\ lPc = "idle"

GetRepoDict ==
    /\ lPc = "config"
    /\ layers' = filter_layers(layers_dict)
    /\ lPc' = "done"
    /\ UNCHANGED layers_dict
    /\ UNCHANGED <<syncVars, runVars, pipeVars, resVars, pyVars, descVars>>

LayerNext == GetRepoDict

\* The values the rule excludes, listed one by one: the six words in any
\* letter case, the number 0 and the boolean false.
ExcludedValues ==
    {StrValue(w) : w \in {W_disabled, W_Disabled, W_excluded, W_n, W_no, W_NO,
                          W_0, W_false}}
    \cup {BoolValue(FALSE), IntValue(0)}

DictKeys(d) == [i \in DOMAIN d |-> d[i].key]
DictValue(d, k) == d[CHOOSE i \in DOMAIN d : d[i].key = k].value

\* C9: the layer list holds exactly the keys whose value is not excluded, in
\* declaration order.
C9_LayerFiltering ==
    lPc = "done"
        => layers = SelectSeq(DictKeys(layers_dict),
                              LAMBDA k : DictValue(layers_dict, k) \notin ExcludedValues)

\* {a: enabled, b: disabled, c: 0, d: yes} yields [a, d].
C9_Witness ==
    /\ lPc = "done"
    /\ layers_dict \in ExampleDicts
    /\ layers = <<"a", "d">>

----------------------------------------------------------------------------
(* Descriptor derivation: ConfigStatic.get_repo_dict turns every entry of   *)
(* the merged 'repos' mapping into one repository descriptor.               *)

\* A setting of an entry: absent (or null), or a text given as its parts.
NoSetting == [set |-> FALSE, v |-> <<>>]
Str(v) == [set |-> TRUE, v |-> v]
EmptyStr == Str(<<>>)

RepoKeys == {"a", "b", "c"}
\* Entries of the 'repos' mapping, at most.
MaxRepos == 2

kas_work_dir == Str(<<"work">>)
\* What `git rev-parse --show-toplevel' prints in the directory of the
\* configuration file, stripped.
TopLevel == Str(<<"top">>)

\* os.path.join of a directory and a relative name.
join(dir, rel) == Str(dir.v \o rel.v)

\* An entry whose value is null counts as {}: every setting absent.
RepoEntries ==
    [key : RepoKeys,
     url : {NoSetting, EmptyStr, Str(<<"u">>)},
     path : {NoSetting, EmptyStr, Str(<<"p">>)},
     name : {NoSetting, Str(<<"n">>)},
     refspec : {Str(<<"r">>)},
     layers : {<<Entry("a", StrValue(W_enabled)),
                 Entry("b", StrValue(W_disabled))>>}]

RepoConfigDicts ==
    {d \in UNION {[1..m -> RepoEntries] : m \in 0..MaxRepos} :
        \A i, j \in DOMAIN d : i # j => d[i].key # d[j].key}

\* repos.Repo(url, path, refspec, layers): git operations are enabled.
Repo(url, path, refspec, lays) ==
    [url |-> url, path |-> path, refspec |-> refspec, layers |-> lays,
     git_operation_disabled |-> FALSE]

\* Repo.disable_git_operations.
disable_git_operations(rep) == [rep EXCEPT !.git_operation_disabled = TRUE]

\* name = repo_config_dict[repo].get('name', repo)
repo_name(entry) == IF entry.name.set THEN entry.name ELSE Str(<<entry.key>>)

repo_path_ignoring(path, name) == join(kas_work_dir, name)

\* path = path or os.path.join(self.kas_work_dir, name)
repo_path(path, name) ==
    IF path.set /\ path.v # <<>> THEN path ELSE join(kas_work_dir, name)

\* Whether the loop body runs git rev-parse: url is None and path is None.
in_tree(entry) == ~entry.url.set /\ ~entry.path.set

\* The loop body, given what rev-parse printed.
derive_repo(entry, top) ==
    IF ~entry.url.set
    THEN LET path == IF ~entry.path.set THEN top ELSE entry.path
         IN  disable_git_operations(
                 Repo(path, path, NoSetting, filter_layers(entry.layers)))
    ELSE Repo(entry.url, repo_path(entry.path, repo_name(entry)),
              entry.refspec, filter_layers(entry.layers))

DescStart ==
    /\ repo_config_dict \in RepoConfigDicts
    /\ repo_dict = <<>>
    /\ dPc = "loop"
    /\ dTerm = Running

DescIdle ==
    /\ repo_config_dict = <<>>
    /\ repo_dict = <<>>
    /\ dPc = "idle"
    /\ dTerm = Running

\* One pass of `for repo in repo_config_dict'. For an in-tree entry run_cmd
\* runs with fail=True: a non-zero status of git ends the program.
DeriveRepo ==
    /\ dPc = "loop"
    /\ Len(repo_dict) < Len(repo_config_dict)
    /\ LET entry == repo_config_dict[Len(repo_dict) + 1]
       IN  \E retc \in {0, GitFatal} :
               IF in_tree(entry) /\ retc # 0
               THEN /\ dTerm' = SystemExit(retc)
                    /\ dPc' = "exited"
                    /\ UNCHANGED repo_dict
               ELSE /\ repo_dict' = Append(repo_dict,
                                           [key |-> entry.key,
                                            rep |-> derive_repo(entry, TopLevel)])
                    /\ UNCHANGED <<dPc, dTerm>>
    /\ UNCHANGED repo_config_dict
    /\ UNCHANGED <<syncVars, runVars, layerVars, pipeVars, resVars, pyVars>>

\* return repo_dict
ReturnRepoDict ==
    /\ dPc = "loop"
    /\ Len(repo_dict) = Len(repo_config_dict)
    /\ dPc' = "returned"
    /\ UNCHANGED <<repo_config_dict, repo_dict, dTerm>>
    /\ UNCHANGED <<syncVars, runVars, layerVars, pipeVars, resVars, pyVars>>

DescNext == DeriveRepo \/ ReturnRepoDict

DescriptorsOf(k) == {i \in DOMAIN repo_dict : repo_dict[i].key = k}
DescriptorOf(k) == repo_dict[CHOOSE i \in DOMAIN repo_dict : repo_dict[i].key = k].rep

\* What the rule says of one entry and its descriptor, with `given' telling
\* when a path setting counts as a configured path.
Derived(entry, given(_)) ==
    /\ Cardinality(DescriptorsOf(entry.key)) = 1
    /\ LET rep == DescriptorOf(entry.key)
       IN  /\ rep.git_operation_disabled <=> ~entry.url.set
           /\ ~entry.url.set => rep.url = rep.path
           /\ entry.url.set =>
                rep.path = IF given(entry.path) THEN entry.path
                           ELSE join(kas_work_dir, repo_name(entry))

Configured(path) == path.set
ConfiguredNonEmpty(path) == path.set /\ path.v # <<>>

\* C24 as stated: once get_repo_dict is over, every entry of the mapping has
\* exactly one descriptor under its key, flagged disabled exactly when the
\* entry has no url and then with url equal to path, and otherwise with the
\* configured path or, when there is none, the work directory joined with
\* the name.
C24_DescriptorDerivation ==
    dPc \in {"returned", "exited"}
        => \A i \in DOMAIN repo_config_dict :
                Derived(repo_config_dict[i], Configured)

\* C24 amended: the rule holds whenever get_repo_dict returns, which it does
\* unless git rev-parse fails for an entry with neither url nor path, and
\* with an empty path setting counting as none.
C24_DescriptorDerivationOnReturn ==
    /\ dPc = "returned"
        => \A i \in DOMAIN repo_config_dict :
                Derived(repo_config_dict[i], ConfiguredNonEmpty)
    /\ dPc = "exited"
        => /\ dTerm = SystemExit(GitFatal)
           /\ in_tree(repo_config_dict[Len(repo_dict) + 1])

\* C24 witness: a mapping with an in-tree entry and a url entry without a
\* path but with a name has been derived.
C24_Witness ==
    /\ dPc = "returned"
    /\ Len(repo_config_dict) = 2
    /\ in_tree(repo_config_dict[1])
    /\ repo_dict[1].rep.git_operation_disabled
    /\ repo_dict[1].rep.url = TopLevel
    /\ repo_config_dict[2].url = Str(<<"u">>)
    /\ ~repo_config_dict[2].path.set
    /\ repo_config_dict[2].name.set
    /\ repo_dict[2].rep.path = Str(<<"work", "n">>)
    /\ ~repo_dict[2].rep.git_operation_disabled

----------------------------------------------------------------------------
(* The command pipeline: shell.Shell.run builds a Macro of four commands    *)
(* and runs it over the loaded configuration; Macro.run consults the        *)
(* configuration's get_hook, pre_hook and post_hook per command.            *)

\* macro.add(...) in another order.
Steps_reordered == <<"setup_environ", "setup_proxy", "setup_home", "shell">>

\* macro.add(...) in Shell.run, by str(command).
Steps == <<"setup_proxy", "setup_environ", "setup_home", "shell">>
StepNames == {Steps[i] : i \in DOMAIN Steps}

\* Keys of a scriptable document's namespace: fname, fname + '_prepend',
\* fname + '_append'.
Key(fname, suffix) == [fname |-> fname, suffix |-> suffix]
HookKeys == [fname : StepNames, suffix : {"", "_prepend", "_append"}]
None == [none |-> TRUE]

Event(ev, step) == [ev |-> ev, step |-> step]

\* Config.pre_hook / ConfigPython.pre_hook: the calls it makes.
pre_hook(kind, defs, fname) ==
    IF kind = "python" /\ Key(fname, "_prepend") \in defs
    THEN <<Event("pre", fname)>> ELSE <<>>

\* Config.post_hook / ConfigPython.post_hook: the calls it makes.
post_hook(kind, defs, fname) ==
    IF kind = "python" /\ Key(fname, "_append") \in defs
    THEN <<Event("post", fname)>> ELSE <<>>

\* Config.get_hook / ConfigPython.get_hook: the callable, or None.
get_hook_base(kind, defs, fname) == None

get_hook(kind, defs, fname) ==
    IF kind = "python" /\ Key(fname, "") \in defs THEN Key(fname, "") ELSE None

\* A lookup that raised, let through.
except_nothing(term) == term

\* try: ... except KeyError: pass (or return None).
except_KeyError(term) == IF term = Raised("KeyError") THEN Running ELSE term

\* How a lookup of self._config[key] ends.
config_item(defs, key) == IF key \in defs THEN Running ELSE Raised("KeyError")

\* How pre_hook, post_hook or get_hook ends as far as the lookup of its key
\* goes: the base class does nothing, ConfigPython looks the key up.
hook_ends(kind, defs, key) ==
    IF kind = "python" THEN except_KeyError(config_item(defs, key)) ELSE Running

\* Hooks a document defines, and names to skip, at most.
MaxHooks == 3
MaxSkip == 1
\* Exit statuses of the spawned shell.
ShellCodes == {0, 1, 127}

PipeStart ==
    /\ cfgKind \in {"python", "static"}
    /\ cfgDefs \in {d \in SUBSET HookKeys : Cardinality(d) <= MaxHooks}
    /\ cfgKind = "static" => cfgDefs = {}
    /\ skip \in {k \in SUBSET StepNames : Cardinality(k) <= MaxSkip}
    /\ pStep = 1
    /\ pPhase = "dispatch"
    /\ pTrace = <<>>
    /\ shellRc = -1
    /\ pTerm = Running
    /\ pStatus = -1
    /\ tried = <<>>

PipeIdle ==
    /\ cfgKind = "static"
    /\ cfgDefs = {}
    /\ skip = {}
    /\ pStep = 0
    /\ pPhase = "idle"
    /\ pTrace = <<>>
    /\ shellRc = -1
    /\ pTerm = Running
    /\ pStatus = -1
    /\ tried = <<>>

\* sub_cmds of kas(): Build, Shell and a plugin from the entry points.
sub_cmds == <<"build", "shell", "plugin">>

\* for cmd in sub_cmds: if cmd.run(args): return. The sub-commands tried
\* once the one at the end of tr has returned.
tried_after(tr, claimed) ==
    IF claimed THEN tr ELSE tr \o SubSeq(sub_cmds, Len(tr) + 1, Len(sub_cmds))

\* Build.run(args) returns False for the shell sub-command, Shell.run is
\* called next and passes its test of args.cmd.
KasDispatch ==
    /\ pPhase = "dispatch" /\ pTerm = Running /\ pStatus = -1
    /\ tried' = SubSeq(sub_cmds, 1, 2)
    /\ pPhase' = "load"
    /\ UNCHANGED <<cfgKind, cfgDefs, skip, pStep, pTrace, shellRc, pTerm, pStatus>>
    /\ UNCHANGED <<syncVars, runVars, layerVars, resVars, pyVars, descVars>>

\* subprocess.check_call in place of subprocess.call.
execute_shell_checked(rc) ==
    IF rc # 0 THEN Raised("CalledProcessError") ELSE Running

\* ShellCommand.execute once the shell has ended with status rc: the value
\* of subprocess.call is dropped.
execute_shell(rc) == Running

\* How load_config can end: it returns the configuration, or the
\* declarative resolution raises, or a git command run with fail=True exits
\* (also when a signal killed it), or the scriptable document cannot be read.
LoadOutcomes(kind) ==
    IF kind = "static"
    THEN {Running, Raised("IncludeException"), Raised("KeyError"),
          SystemExit(GitFatal), SystemExit(-9)}
    ELSE {Running, Raised("IOError")}

\* cfg = load_config(args.config, args.target)
LoadConfig ==
    /\ pPhase = "load" /\ pTerm = Running /\ pStatus = -1
    /\ pTerm' \in LoadOutcomes(cfgKind)
    /\ pPhase' = IF pTerm' = Running THEN "start" ELSE "fatal"
    /\ UNCHANGED <<cfgKind, cfgDefs, skip, pStep, pTrace, shellRc, pStatus, tried>>
    /\ UNCHANGED <<syncVars, runVars, layerVars, resVars, pyVars, descVars>>

AtStep(ph) ==
    /\ pTerm = Running /\ pStatus = -1
    /\ pStep \in DOMAIN Steps
    /\ pPhase = ph

\* Macro.run: a command whose name is in the skip list is passed over.
StepSkip ==
    /\ AtStep("start")
    /\ Steps[pStep] \in skip
    /\ pStep' = pStep + 1
    /\ UNCHANGED <<cfgKind, cfgDefs, skip, pPhase, pTrace, shellRc, pTerm, pStatus, tried>>
    /\ UNCHANGED <<syncVars, runVars, layerVars, resVars, pyVars, descVars>>

\* Macro.run: an override hook is called instead of the command.
StepOverride ==
    /\ AtStep("start")
    /\ Steps[pStep] \notin skip
    /\ get_hook(cfgKind, cfgDefs, Steps[pStep]) # None
    /\ pTrace' = Append(pTrace, Event("override", get_hook(cfgKind, cfgDefs, Steps[pStep]).fname))
    /\ pStep' = pStep + 1
    /\ UNCHANGED <<cfgKind, cfgDefs, skip, pPhase, shellRc, pTerm, pStatus, tried>>
    /\ UNCHANGED <<syncVars, runVars, layerVars, resVars, pyVars, descVars>>

\* Macro.run: no override, the pre-hook is consulted.
StepPreHook ==
    /\ AtStep("start")
    /\ Steps[pStep] \notin skip
    /\ get_hook(cfgKind, cfgDefs, Steps[pStep]) = None
    /\ LET got == hook_ends(cfgKind, cfgDefs, Key(Steps[pStep], ""))
           pre == hook_ends(cfgKind, cfgDefs, Key(Steps[pStep], "_prepend"))
       IN  /\ pTerm' = IF got # Running THEN got ELSE pre
           /\ pTrace' = IF got # Running THEN pTrace
                         ELSE pTrace \o pre_hook(cfgKind, cfgDefs, Steps[pStep])
           /\ pPhase' = IF pTerm' = Running THEN "execute" ELSE "fatal"
    /\ UNCHANGED <<cfgKind, cfgDefs, skip, pStep, shellRc, pStatus, tried>>
    /\ UNCHANGED <<syncVars, runVars, layerVars, resVars, pyVars, descVars>>

\* command.execute(config) of a setup command: it returns, or it is fatal.
StepExecute ==
    /\ AtStep("execute")
    /\ Steps[pStep] # "shell"
    /\ pTrace' = Append(pTrace, Event("execute", Steps[pStep]))
    /\ \/ pPhase' = "post" /\ pTerm' = Running
       \/ pPhase' = "fatal" /\ pTerm' = SystemExit(1)
    /\ UNCHANGED <<cfgKind, cfgDefs, skip, pStep, shellRc, pStatus, tried>>
    /\ UNCHANGED <<syncVars, runVars, layerVars, resVars, pyVars, descVars>>

\* ShellCommand.execute: subprocess.call, its return value dropped.
ShellExecute ==
    /\ AtStep("execute")
    /\ Steps[pStep] = "shell"
    /\ pTrace' = Append(pTrace, Event("execute", Steps[pStep]))
    /\ \/ /\ shellRc' \in ShellCodes
          /\ pTerm' = execute_shell(shellRc')
       \/ /\ pTerm' = Raised("OSError")
          /\ UNCHANGED shellRc
    /\ pPhase' = IF pTerm' = Running THEN "post" ELSE "fatal"
    /\ UNCHANGED <<cfgKind, cfgDefs, skip, pStep, pStatus, tried>>
    /\ UNCHANGED <<syncVars, runVars, layerVars, resVars, pyVars, descVars>>

\* Macro.run: the post-hook is consulted, then the next command.
StepPostHook ==
    /\ AtStep("post")
    /\ pTrace' = pTrace \o post_hook(cfgKind, cfgDefs, Steps[pStep])
    /\ pTerm' = hook_ends(cfgKind, cfgDefs, Key(Steps[pStep], "_append"))
    /\ pPhase' = IF pTerm' = Running THEN "start" ELSE "fatal"
    /\ pStep' = IF pTerm' = Running THEN pStep + 1 ELSE pStep
    /\ UNCHANGED <<cfgKind, cfgDefs, skip, shellRc, pStatus, tried>>
    /\ UNCHANGED <<syncVars, runVars, layerVars, resVars, pyVars, descVars>>

\* Shell.run returns True, kas returns, main exits; or a fatal exit ends it.
PipeExit ==
    /\ pStatus = -1
    /\ pPhase # "idle"
    /\ pTerm # Running \/ pStep = Len(Steps) + 1
    /\ pStatus' = main_status(pTerm)
    /\ tried' = IF pTerm = Running THEN tried_after(tried, TRUE) ELSE tried
    /\ UNCHANGED <<cfgKind, cfgDefs, skip, pStep, pPhase, pTrace, shellRc, pTerm>>
    /\ UNCHANGED <<syncVars, runVars, layerVars, resVars, pyVars, descVars>>

PipeNext ==
    KasDispatch \/ LoadConfig \/ StepSkip \/ StepOverride \/ StepPreHook \/ StepExecute \/ ShellExecute
        \/ StepPostHook \/ PipeExit

\* The calls made for one step, in order.
CallsOf(step) == SelectSeq(pTrace, LAMBDA e : e.step = step)
Kinds(evs) == [i \in DOMAIN evs |-> evs[i].ev]
IsPrefix(a, b) == Len(a) <= Len(b) /\ a = SubSeq(b, 1, Len(a))
StepIndex(step) == CHOOSE i \in DOMAIN Steps : Steps[i] = step

\* What the rule prescribes for a step that is not skipped.
Prescribed(step) ==
    IF cfgKind = "python" /\ Key(step, "") \in cfgDefs
    THEN <<"override">>
    ELSE (IF cfgKind = "python" /\ Key(step, "_prepend") \in cfgDefs
          THEN <<"pre">> ELSE <<>>)
         \o <<"execute">>
         \o (IF cfgKind = "python" /\ Key(step, "_append") \in cfgDefs
             THEN <<"post">> ELSE <<>>)

\* C10: for every step not skipped, an override hook supplied for its name
\* is called and nothing else is; otherwise the calls are pre-hook (if any),
\* execute, post-hook (if any), in that order. A step the macro has passed
\* has made all of its calls, a step it has not reached has made none.
C10_HookPrecedence ==
    \A step \in StepNames \ skip :
        /\ IsPrefix(Kinds(CallsOf(step)), Prescribed(step))
        /\ (StepIndex(step) < pStep) => Kinds(CallsOf(step)) = Prescribed(step)
        /\ (StepIndex(step) > pStep) => CallsOf(step) = <<>>

\* The shell step has an override, a pre-hook and a post-hook; the run is
\* over and only the override was called for it.
C10_Witness ==
    /\ pStatus = 0
    /\ {Key("shell", ""), Key("shell", "_prepend"), Key("shell", "_append")} \subseteq cfgDefs
    /\ skip = {}
    /\ Kinds(CallsOf("shell")) = <<"override">>
    /\ Kinds(CallsOf("setup_home")) = <<"execute">>

\* A step name for which the document registers no override, no pre-hook
\* and no post-hook; every name of a declarative configuration is one.
Hookless(step) ==
    cfgKind = "python" => \A sfx \in {"", "_prepend", "_append"} : Key(step, sfx) \notin cfgDefs

\* C25: for a step name without hooks get_hook reports None and pre_hook
\* and post_hook call nothing; the only call ever made for such a step is
\* its own execute, which every such step the macro has passed has made;
\* and consulting the hooks of such a step never ends the run: from the
\* start of the step the macro goes on to execute it, and after it to the
\* next step.
C25_MissingHooksHarmless ==
    /\ [](\A i \in DOMAIN Steps :
            Hookless(Steps[i]) =>
                /\ get_hook(cfgKind, cfgDefs, Steps[i]) = None
                /\ pre_hook(cfgKind, cfgDefs, Steps[i]) = <<>>
                /\ post_hook(cfgKind, cfgDefs, Steps[i]) = <<>>
                /\ IsPrefix(Kinds(CallsOf(Steps[i])), <<"execute">>)
                /\ (i < pStep /\ Steps[i] \notin skip)
                        => Kinds(CallsOf(Steps[i])) = <<"execute">>)
    /\ [][(/\ pStep \in DOMAIN Steps
           /\ pPhase \in {"start", "post"}
           /\ Hookless(Steps[pStep]))
            => /\ pTerm' = Running
               /\ (pPhase = "start" /\ Steps[pStep] \notin skip)
                    => (pPhase' = "execute" /\ pStep' = pStep)
               /\ pPhase = "post" => (pPhase' = "start" /\ pStep' = pStep + 1)]_vars

\* C25 witness: a scriptable document that registers hooks for the shell
\* step only; the run is over and setup_home, which has none, was executed
\* and nothing else was called for it.
C25_Witness ==
    /\ pStatus = 0
    /\ cfgKind = "python"
    /\ skip = {}
    /\ Key("shell", "_prepend") \in cfgDefs
    /\ Hookless("setup_home")
    /\ Kinds(CallsOf("setup_home")) = <<"execute">>
    /\ Kinds(CallsOf("shell")) = <<"pre", "execute">>

\* The order the shell command's steps are to run in.
ShellOrder == <<"setup_proxy", "setup_environ", "setup_home", "shell">>
OrderIndex(step) == CHOOSE i \in DOMAIN ShellOrder : ShellOrder[i] = step
Count(evs, ev) == Len(SelectSeq(evs, LAMBDA e : e.ev = ev))

\* C11: the calls of a run follow the order proxy setup, environment
\* setup, home setup, shell; every step is executed or overridden at most
\* once; a step named in the skip set makes no call at all (no execute, no
\* hook); and a run that passed all steps executed or overrode every step
\* not skipped exactly once.
C11_OrderAndSkipping ==
    /\ \A i, j \in DOMAIN pTrace :
            i < j => OrderIndex(pTrace[i].step) <= OrderIndex(pTrace[j].step)
    /\ \A step \in StepNames :
            Count(CallsOf(step), "execute") + Count(CallsOf(step), "override") <= 1
    /\ \A step \in skip : CallsOf(step) = <<>>
    /\ pStep = Len(ShellOrder) + 1 =>
            \A step \in StepNames \ skip :
                Count(CallsOf(step), "execute") + Count(CallsOf(step), "override") = 1

\* C11 witness: a run over a document that defines a hook for the skipped
\* step passed every step, and only the three other steps made calls.
C11_Witness ==
    /\ pStep = Len(ShellOrder) + 1
    /\ pStatus = 0
    /\ skip = {"setup_environ"}
    /\ cfgKind = "python"
    /\ Key("setup_environ", "_prepend") \in cfgDefs
    /\ Kinds(pTrace) = <<"execute", "execute", "execute">>
    /\ pTrace[1].step = "setup_proxy" /\ pTrace[3].step = "shell"

\* C12: a run that ended by the include-resolution error or by the exit of
\* a failed subprocess has a non-zero exit status, and a run that passed
\* all its steps without a fatal failure has exit status 0.
C12_ExitStatus ==
    pStatus # -1 =>
        /\ (pTerm = Raised("IncludeException") \/ pTerm.kind = "SystemExit")
                => pStatus \in 1..255
        /\ (pTerm = Running /\ pStep = Len(Steps) + 1) => pStatus = 0

\* C12 witness: the declarative resolution raised IncludeException and the
\* tool exited with status 1 before any step ran.
C12_Witness ==
    /\ pTerm = Raised("IncludeException")
    /\ pStatus = 1
    /\ pTrace = <<>>

\* C26: once the spawned shell has returned, with whatever status, the run
\* is not terminated by it: execute has returned and the macro goes on, the
\* tool's exit status, once it has one, is 0, and Build and Shell are the
\* only sub-commands whose run was called: Shell.run returned True.
C26_ShellStatusIgnored ==
    shellRc # -1 =>
        /\ pTerm = Running
        /\ pPhase \in {"post", "start"}
        /\ pStatus \in {-1, 0}
        /\ tried = <<"build", "shell">>
        /\ pStatus = 0 => pStep = Len(Steps) + 1

\* C26 witness: the shell ended with status 127 and the tool has exited
\* with status 0 without trying the plugin sub-command.
C26_Witness ==
    /\ shellRc = 127
    /\ pStatus = 0
    /\ pTrace[Len(pTrace)] = Event("execute", "shell")
    /\ tried = <<"build", "shell">>

----------------------------------------------------------------------------
(* Declarative resolution: config.ConfigStatic.__init__ drives the include  *)
(* handler's get_config and the synchronizer until no repository is         *)
(* missing or no progress is made.                                          *)

RepoNames == {"a", "b"}
\* The root document and, per repository, the document included from it.
Docs == {"root"} \cup RepoNames
\* Includes of the root document, at most.
MaxInc == 2

SeqsUpTo(S, n) == UNION {[1..m -> S] : m \in 0..n}
Range(f) == {f[i] : i \in DOMAIN f}

\* An entry of the merged 'repos' mapping is written in one document; it
\* gives a url ("url"), a path and no url ("local"), or neither ("intree").
NoEntry == [kind |-> "none", doc |-> "root", refspec |-> NoRefspec]
EntriesOf(r) ==
    {NoEntry}
    \cup [kind : {"url"}, doc : Docs \ {r}, refspec : {"c1"}]
    \cup [kind : {"local", "intree"}, doc : Docs \ {r}, refspec : {NoRefspec}]

\* Working copies a resolution may find at an entry's path.
CopiesOf(e) ==
    CASE e.kind = "none" -> {AbsentCopy}
      [] e.kind = "intree" ->
            {[exists |-> TRUE, dirty |-> FALSE, head |-> "c1", hasRef |-> TRUE]}
      [] e.kind = "local" ->
            {AbsentCopy,
             [exists |-> TRUE, dirty |-> FALSE, head |-> "c1", hasRef |-> TRUE]}
      [] e.kind = "url" ->
            {AbsentCopy,
             [exists |-> TRUE, dirty |-> FALSE, head |-> "c1", hasRef |-> TRUE],
             [exists |-> TRUE, dirty |-> TRUE, head |-> "c2", hasRef |-> TRUE],
             [exists |-> TRUE, dirty |-> FALSE, head |-> "c2", hasRef |-> FALSE],
             [exists |-> TRUE, dirty |-> FALSE, head |-> "none", hasRef |-> FALSE]}

\* get_repo_dict: the Repo built from an entry; without a url git
\* operations are disabled.
repo_of(e) ==
    [git_operation_disabled |-> e.kind # "url", refspec |-> e.refspec]

\* get_repo_dict: the names with an entry in the merged configuration.
repo_dict_keys(cfg) == {r \in RepoNames : entries[r].kind # "none" /\ entries[r].doc \in cfg}

\* get_repo_dict runs `git rev-parse --show-toplevel' (fail=True) for every
\* entry with neither url nor path.
HasInTree(cfg) == \E r \in repo_dict_keys(cfg) : entries[r].kind = "intree"

\* GlobalIncludes.get_config: an include goes through a repository that is
\* located when it is among the known repositories and its path is there.
located(r, known) == r \in known /\ wc[r].exists

\* The documents reached from a list of includes and the repositories that
\* could not be located, in the order met.
RECURSIVE walk_includes(_, _)
walk_includes(incs, known) ==
    IF incs = <<>> THEN [docs |-> {}, missing |-> <<>>]
    ELSE LET r == Head(incs)
             rest == walk_includes(Tail(incs), known)
             here == IF located(r, known)
                     THEN LET sub == walk_includes(includes[r], known)
                          IN  [docs |-> sub.docs \cup {r}, missing |-> sub.missing]
                     ELSE [docs |-> {}, missing |-> <<r>>]
         IN  [docs |-> here.docs \cup rest.docs,
              missing |-> here.missing \o rest.missing]

get_config(known) ==
    LET w == walk_includes(includes["root"], known)
    IN  [config |-> w.docs \cup {"root"}, missing |-> w.missing]

\* if missing_repos_old and missing_repos == missing_repos_old
no_progress_unguarded(old, new) == new = old

no_progress_never(old, new) == FALSE

no_progress(old, new) == old # <<>> /\ new = old

\* for repo in missing_repos: the loop is over after the last element.
for_done_early(i, missing) == i > 1

for_done(i, missing) == i > Len(missing)

\* complete = True, reset to False `if missing_repos'
loop_complete_never(missing) == FALSE

loop_complete(missing) == missing = <<>>

\* repos = {r: repo_dict[r].path for r in repo_dict}
next_repos_stale(known, cfg) == known

next_repos(known, cfg) == repo_dict_keys(cfg)

\* A call the loop made: the repository, whether the reference directory
\* of its url was there, the working copy before, and what the call did.
NoLoopCall ==
    [op |-> "none", repo |-> "none", refdir |-> FALSE, cmds |-> <<>>,
     warn |-> FALSE, fs |-> FALSE, pre |-> AbsentCopy, term |-> Running]

LoopCall(op, r, refdir, pre, res) ==
    [op |-> op, repo |-> r, refdir |-> refdir, cmds |-> res.cmds,
     warn |-> res.warn, fs |-> res.fs, pre |-> pre, term |-> res.term]

ResStart ==
    /\ includes \in {i \in [Docs -> SeqsUpTo(RepoNames, MaxInc)] :
                        /\ \A r \in RepoNames : Len(i[r]) <= 1 /\ r \notin Range(i[r])
                        /\ \E r \in RepoNames : i[r] = <<>>}
    /\ entries \in {e \in [RepoNames -> UNION {EntriesOf(r) : r \in RepoNames}] :
                        \A r \in RepoNames : e[r] \in EntriesOf(r)}
    /\ wc \in {w \in [RepoNames -> WorkingCopies] :
                        \A r \in RepoNames : w[r] \in CopiesOf(entries[r])}
    /\ pc = "parsing"
    /\ phase = "fetch"
    /\ idx = 0
    /\ round = 0
    /\ repos = {}
    /\ config = {}
    /\ missing_repos = <<>>
    /\ missing_repos_old = <<>>
    /\ missing_prev = <<>>
    /\ roundOps = <<>>
    /\ zTerm = Running
    /\ zCall = NoLoopCall

ResIdle ==
    /\ includes = [d \in Docs |-> <<>>]
    /\ entries = [r \in RepoNames |-> NoEntry]
    /\ wc = [r \in RepoNames |-> AbsentCopy]
    /\ pc = "idle"
    /\ phase = "fetch"
    /\ idx = 0
    /\ round = 0
    /\ repos = {}
    /\ config = {}
    /\ missing_repos = <<>>
    /\ missing_repos_old = <<>>
    /\ missing_prev = <<>>
    /\ roundOps = <<>>
    /\ zTerm = Running
    /\ zCall = NoLoopCall

\* The while body up to the for loop, given what get_config returned: the
\* non-progress test, then get_repo_dict when something is missing.
WhileBody(got) ==
    /\ config' = got.config
    /\ missing_repos' = got.missing
    /\ missing_prev' = missing_repos
    /\ roundOps' = <<>>
    /\ idx' = 1
    /\ phase' = "fetch"
    /\ IF no_progress(missing_repos_old, got.missing)
       THEN /\ pc' = "failed"
            /\ zTerm' = Raised("IncludeException")
            /\ UNCHANGED missing_repos_old
       ELSE /\ missing_repos_old' = got.missing
            /\ IF loop_complete(got.missing)
               THEN pc' = "converged" /\ zTerm' = Running
               ELSE \/ pc' = "awaiting-fetch" /\ zTerm' = Running
                    \/ /\ HasInTree(got.config)
                       /\ pc' = "fatal"
                       /\ zTerm' = SystemExit(GitFatal)

\* One pass of the while loop up to the for loop.
ParseRound ==
    /\ pc = "parsing"
    /\ WhileBody(get_config(repos))
    /\ round' = round + 1
    /\ UNCHANGED <<includes, entries, wc, repos, zCall>>
    /\ UNCHANGED <<syncVars, runVars, layerVars, pipeVars, pyVars, descVars>>

ResApply(op, r, refdir, res) ==
    /\ zCall' = LoopCall(op, r, refdir, wc[r], res)
    /\ wc' = [wc EXCEPT ![r] = res.w]
    /\ roundOps' = Append(roundOps, <<op, r>>)
    /\ zTerm' = res.term
    /\ pc' = IF res.term = Running THEN pc
             ELSE IF res.term.kind = "SystemExit" THEN "fatal" ELSE "crashed"

\* repo_fetch(self, repo_dict[repo])
FetchMissing ==
    /\ pc = "awaiting-fetch" /\ phase = "fetch"
    /\ ~for_done(idx, missing_repos)
    /\ LET r == missing_repos[idx]
       IN  IF r \notin repo_dict_keys(config)
           THEN /\ pc' = "crashed"
                /\ zTerm' = Raised("KeyError")
                /\ UNCHANGED <<wc, roundOps, phase, zCall>>
           ELSE /\ \E refdir \in BOOLEAN :
                     \E res \in repo_fetch(repo_of(entries[r]), wc[r], refdir) :
                        ResApply("repo_fetch", r, refdir, res)
                /\ phase' = "checkout"
    /\ UNCHANGED <<includes, entries, idx, round, repos, config, missing_repos,
                   missing_repos_old, missing_prev>>
    /\ UNCHANGED <<syncVars, runVars, layerVars, pipeVars, pyVars, descVars>>

\* repo_checkout(self, repo_dict[repo])
CheckoutMissing ==
    /\ pc = "awaiting-fetch" /\ phase = "checkout"
    /\ LET r == missing_repos[idx]
       IN  \E res \in repo_checkout(repo_of(entries[r]), wc[r]) :
                ResApply("repo_checkout", r, FALSE, res)
    /\ phase' = "fetch"
    /\ idx' = idx + 1
    /\ UNCHANGED <<includes, entries, round, repos, config, missing_repos,
                   missing_repos_old, missing_prev>>
    /\ UNCHANGED <<syncVars, runVars, layerVars, pipeVars, pyVars, descVars>>

\* The for loop is over: the known repositories for the next pass.
EndRound ==
    /\ pc = "awaiting-fetch" /\ phase = "fetch"
    /\ for_done(idx, missing_repos)
    /\ repos' = next_repos(repos, config)
    /\ pc' = "parsing"
    /\ UNCHANGED <<includes, entries, wc, phase, idx, round, config, missing_repos,
                   missing_repos_old, missing_prev, roundOps, zTerm, zCall>>
    /\ UNCHANGED <<syncVars, runVars, layerVars, pipeVars, pyVars, descVars>>

ResNext == ParseRound \/ FetchMissing \/ CheckoutMissing \/ EndRound

Terminated == pc \in {"converged", "failed", "fatal", "crashed"}

\* The root document has one include, through repository r.
SingleInclude(r) == includes["root"] = <<r>>

\* C1: when the root document's only include goes through a repository
\* that every get_config pass reports missing, and no fetch or checkout
\* ends the run with a subprocess failure, the resolution ends in the
\* failed state with IncludeException after exactly two passes: it never
\* ends otherwise and never starts a third pass.
C1_NonProgressAfterTwoRounds ==
    \A r \in RepoNames :
        (SingleInclude(r) /\ missing_repos = <<r>>)
            => /\ round <= 2
               /\ (Terminated /\ pc # "fatal")
                    => /\ pc = "failed"
                       /\ zTerm = Raised("IncludeException")
                       /\ round = 2

\* C2: when the root document's only include goes through a repository
\* that is located once the first pass's fetch and checkout are over, and
\* the included document has no includes, the second pass converges and
\* the configuration is the merge of both documents; the resolution never
\* converges in another pass.
C2_TwoRoundConvergence ==
    /\ [][\A r \in RepoNames :
            (/\ SingleInclude(r) /\ includes[r] = <<>>
             /\ pc = "parsing" /\ round = 1 /\ located(r, repos))
                => /\ pc' = "converged"
                   /\ round' = 2
                   /\ config' = {"root", r}
                   /\ zTerm' = Running]_vars
    /\ [](\A r \in RepoNames :
            (SingleInclude(r) /\ includes[r] = <<>> /\ pc = "converged")
                => (round = 2 /\ config = {"root", r}))

\* C2 witness: a single include converged in the second pass after the
\* first pass fetched and checked out its repository.
C2_Witness ==
    \E r \in RepoNames :
        /\ SingleInclude(r) /\ includes[r] = <<>>
        /\ entries[r].kind = "url"
        /\ pc = "converged" /\ round = 2
        /\ config = {"root", r}

\* C3: a pass whose missing repositories are, as a set, non-empty and the
\* same as the previous pass's ends the resolution with IncludeException
\* before any repo_fetch or repo_checkout of that pass; the resolution
\* fails this way in no other case, and so never in the first pass.
C3_NonProgressDetection ==
    LET prev == Range(missing_prev)
        cur == Range(missing_repos)
        same == round >= 2 /\ cur # {} /\ cur = prev
    IN  /\ same => /\ pc = "failed"
                   /\ zTerm = Raised("IncludeException")
                   /\ roundOps = <<>>
        /\ pc = "failed" => same

\* C3 witness: the second pass reported the first pass's missing
\* repository again and the resolution failed.
C3_Witness ==
    /\ pc = "failed"
    /\ round = 2
    /\ missing_repos # <<>>
    /\ missing_repos = missing_prev
    /\ roundOps = <<>>

\* repo_fetch then repo_checkout of every missing repository, in order.
RECURSIVE FetchCheckoutAll(_)
FetchCheckoutAll(missing) ==
    IF missing = <<>> THEN <<>>
    ELSE <<<<"repo_fetch", Head(missing)>>, <<"repo_checkout", Head(missing)>>>>
            \o FetchCheckoutAll(Tail(missing))

\* C16: the resolution starts in parsing; a pass leaves parsing for
\* awaiting-fetch only with a non-empty missing set that differs from the
\* previous pass's, for converged only with an empty one, for failed only
\* with a non-empty one equal to the previous pass's; awaiting-fetch
\* returns to parsing only after repo_fetch and repo_checkout of every
\* missing repository; nothing happens after converged or failed.  A run
\* that a fatal subprocess exit or an exception ends stays ended.
C16_StateMachine ==
    /\ pc = "parsing"
    /\ [][/\ pc = "parsing" =>
                /\ pc' \in {"parsing", "awaiting-fetch", "converged", "failed", "fatal"}
                /\ pc' = "awaiting-fetch" =>
                        /\ missing_repos' # <<>>
                        /\ Range(missing_repos') # Range(missing_repos)
                /\ pc' = "converged" => missing_repos' = <<>>
                /\ pc' = "failed" =>
                        /\ missing_repos' # <<>>
                        /\ Range(missing_repos') = Range(missing_repos)
          /\ pc = "awaiting-fetch" =>
                /\ pc' \in {"awaiting-fetch", "parsing", "fatal", "crashed"}
                /\ pc' = "parsing" => roundOps = FetchCheckoutAll(missing_repos)
          /\ pc \in {"converged", "failed", "fatal", "crashed"} =>
                UNCHANGED resVars]_vars

\* C16 witness: two passes through awaiting-fetch, each fetching and
\* checking out one repository, then the third pass converged.
C16_Witness ==
    /\ pc = "converged"
    /\ round = 3
    /\ roundOps = <<>>
    /\ Range(missing_prev) # {}
    /\ config = Docs

\* C19: in every awaiting-fetch round each missing repository has a
\* descriptor (an entry of get_repo_dict); the calls of the round are
\* repo_fetch then repo_checkout per missing repository, one repository
\* after the other in the order reported; and the known repositories
\* handed to the next pass hold every repository fetched in the round and
\* every repository known before it.
C19_FetchRoundProtocol ==
    /\ [](pc = "awaiting-fetch" =>
            /\ Range(missing_repos) \subseteq repo_dict_keys(config)
            /\ IsPrefix(roundOps, FetchCheckoutAll(missing_repos)))
    /\ [][(pc = "awaiting-fetch" /\ pc' = "parsing") =>
            /\ roundOps = FetchCheckoutAll(missing_repos)
            /\ Range(missing_repos) \subseteq repos'
            /\ repos \subseteq repos']_vars

\* C20: a resolution that ends by an error because an include goes through
\* a repository that fetching cannot supply ends by IncludeException, also
\* when the missing name has no entry in the merged 'repos' mapping: no
\* pass or round ends by an exception of another class.
C20_DistinctErrorKind ==
    (pc \in {"failed", "crashed"} /\ missing_repos # <<>>)
        => zTerm = Raised("IncludeException")

\* The loop's latest call was repo_fetch on a path that did not exist.
AbsentFetch == zCall.op = "repo_fetch" /\ ~zCall.pre.exists
LoopRepo == repo_of(entries[zCall.repo])

\* The call made the parent directories and spawned one command, the clone,
\* with the reference directory exactly when that directory was there; a
\* clone that exited non-zero ended the run.
CloneOnly ==
    /\ zCall.fs
    /\ Len(zCall.cmds) = 1
    /\ zCall.cmds[1].git = (IF zCall.refdir THEN "clone --reference" ELSE "clone -q")
    /\ zCall.cmds[1].fail
    /\ zCall.term # Running =>
            /\ zCall.term.kind = "SystemExit" /\ zCall.term.code # 0
            /\ pc = "fatal" /\ zTerm = zCall.term

\* After a failed clone the loop does nothing more: no repo_checkout of the
\* repository, no further pass.
NothingAfterFailedClone ==
    [][(AbsentFetch /\ zCall.term # Running) => UNCHANGED resVars]_vars

\* C21 as stated: whenever the path of the repository does not exist,
\* repo_fetch makes the parent directories and spawns exactly one command,
\* the clone, with the reference directory iff it exists; a failed clone is
\* fatal and the loop does nothing after it.
C21_AbsentPathClones ==
    /\ [](AbsentFetch => CloneOnly)
    /\ NothingAfterFailedClone

\* C21, amended: the same for a repository with git operations enabled; for
\* a repository without url repo_fetch spawns nothing and touches nothing
\* even though its path does not exist.
C21_AbsentPathClonesIfEnabled ==
    /\ [](AbsentFetch =>
            IF LoopRepo.git_operation_disabled
            THEN zCall.cmds = <<>> /\ ~zCall.fs /\ zCall.term = Running
            ELSE CloneOnly)
    /\ NothingAfterFailedClone

\* C21 witness: in the loop a clone from the reference directory failed,
\* the run ended with git's status and the round made no other call.
C21_Witness ==
    /\ AbsentFetch
    /\ zCall.refdir
    /\ zCall.cmds[1].git = "clone --reference"
    /\ pc = "fatal"
    /\ zTerm = SystemExit(GitFatal)
    /\ roundOps = <<<<"repo_fetch", zCall.repo>>>>

----------------------------------------------------------------------------
(* The resolution loop over an arbitrary resolver: get_config may return    *)
(* any list of missing repositories that names the repository no fetch      *)
(* can produce.                                                             *)

\* The repository that is reported missing in every pass: it has an entry
\* without url, so repo_fetch and repo_checkout do nothing for it, and its
\* path is not there.
Unproducible == "a"
\* Names a pass reports missing, at most; passes counted, at most.
MaxMissing == 2
MaxRounds == 3

Min(x, y) == IF x < y THEN x ELSE y

ResolverResults ==
    {m \in SeqsUpTo(RepoNames, MaxMissing) : Unproducible \in Range(m)}

AnyStart ==
    /\ includes = [d \in Docs |-> IF d = "root" THEN <<"a", "b">> ELSE <<>>]
    /\ entries \in {e \in [RepoNames -> UNION {EntriesOf(r) : r \in RepoNames}] :
                        /\ e[Unproducible] =
                              [kind |-> "local", doc |-> "root", refspec |-> NoRefspec]
                        /\ \A r \in RepoNames \ {Unproducible} :
                              e[r] \in EntriesOf(r) /\ e[r].kind # "none"
                                                    /\ e[r].doc = "root"}
    /\ wc \in {w \in [RepoNames -> WorkingCopies] :
                        /\ w[Unproducible] = AbsentCopy
                        /\ \A r \in RepoNames : w[r] \in CopiesOf(entries[r])}
    /\ pc = "parsing"
    /\ phase = "fetch"
    /\ idx = 0
    /\ round = 0
    /\ repos = {}
    /\ config = {}
    /\ missing_repos = <<>>
    /\ missing_repos_old = <<>>
    /\ missing_prev = <<>>
    /\ roundOps = <<>>
    /\ zTerm = Running
    /\ zCall = NoLoopCall

\* One pass of the while loop up to the for loop, over whatever get_config
\* returns; passes beyond MaxRounds are counted as MaxRounds.
ParseRoundAny ==
    /\ pc = "parsing"
    /\ \E m \in ResolverResults : WhileBody([config |-> Docs, missing |-> m])
    /\ round' = Min(round + 1, MaxRounds)
    /\ UNCHANGED <<includes, entries, wc, repos, zCall>>
    /\ UNCHANGED <<syncVars, runVars, layerVars, pipeVars, pyVars, descVars>>

AnyNext == ParseRoundAny \/ FetchMissing \/ CheckoutMissing \/ EndRound

Ended == pc \in {"failed", "fatal", "crashed"}

\* C17 as stated: whatever lists the resolver returns, as long as each
\* names the repository no fetch can produce, the loop eventually stops
\* iterating.
C17_AlwaysTerminates == <>Ended

\* C17, amended: the loop eventually stops, or else again and again a pass
\* reports a list of missing repositories that is not the list of the pass
\* before: it iterates forever only while the resolver's list keeps
\* changing.
C17_TerminatesUnlessChanging ==
    <>Ended \/ []<>(pc = "awaiting-fetch" /\ round >= 2
                        /\ missing_repos # missing_prev)

\* C17 witness: another repository was reported missing and then no longer,
\* and the third pass, repeating the second's list, failed.
C17_Witness ==
    /\ pc = "failed"
    /\ round = 3
    /\ missing_repos = <<Unproducible>>
    /\ missing_prev = <<Unproducible>>
    /\ wc["b"].exists

\* The same names, each as often, in whatever order.
Occurrences(m, r) == Cardinality({i \in DOMAIN m : m[i] = r})
SameCollection(m1, m2) == \A r \in RepoNames : Occurrences(m1, r) = Occurrences(m2, r)

\* C18: a pass that reports the same non-empty collection of missing
\* repositories as the pass before, in whatever order, fails the resolution.
C18_OrderIrrelevant ==
    (round >= 2 /\ missing_repos # <<>> /\ SameCollection(missing_repos, missing_prev))
        => pc = "failed"

----------------------------------------------------------------------------
(* Scriptable resolution: config.ConfigPython executes the document and     *)
(* looks its entry points up by name in the resulting namespace.            *)

\* The getters of ConfigPython that consult an entry point of that name.
Getters == {"get_bitbake_target", "get_machine", "get_distro",
            "get_proxy_config", "get_bblayers_conf_header",
            "get_local_conf_header"}
EntryPoints == Getters \cup {"get_repos"}
Targets == {"core-image-minimal", "my-image"}

\* What an entry point of the document returns, and a value of the tool.
FromDocument(name) == [from |-> "document", value |-> name]
Value(v) == [from |-> "kas", value |-> v]
Returned(v) == [term |-> Running, value |-> v]
Failed(cls) == [term |-> Raised(cls), value |-> NoValue]

\* ConfigPython.get_bitbake_target, get_machine, get_distro,
\* get_bblayers_conf_header, get_local_conf_header: try the entry point,
\* except KeyError return the default.  ConfigPython.get_proxy_config:
\* self._config['get_proxy_config']() with no handler.
getter(name, defs, target) ==
    IF name \in defs THEN Returned(FromDocument(name))
    ELSE CASE name = "get_bitbake_target" -> Returned(Value(target))
           [] name = "get_machine" -> Returned(Value("qemu"))
           [] name = "get_distro" -> Returned(Value("poky"))
           [] name = "get_bblayers_conf_header" -> Returned(Value(""))
           [] name = "get_local_conf_header" -> Returned(Value(""))
           [] name = "get_proxy_config" -> Failed("KeyError")

PyStart ==
    /\ pyDefs \in SUBSET EntryPoints
    /\ pyTarget \in Targets
    /\ pyPc = "new"
    /\ pyGetter = "none"
    /\ pyResult = NoValue
    /\ pyTerm = Running

PyIdle ==
    /\ pyDefs = {}
    /\ pyTarget = "core-image-minimal"
    /\ pyPc = "idle"
    /\ pyGetter = "none"
    /\ pyResult = NoValue
    /\ pyTerm = Running

\* ConfigPython.__init__: exec, then create_config calls
\* self._config['get_repos'](self, target).
PyConstruct ==
    /\ pyPc = "new"
    /\ IF "get_repos" \in pyDefs
       THEN pyPc' = "ready" /\ pyTerm' = Running
       ELSE pyPc' = "raised" /\ pyTerm' = Raised("KeyError")
    /\ UNCHANGED <<pyDefs, pyTarget, pyGetter, pyResult>>
    /\ UNCHANGED <<syncVars, runVars, layerVars, pipeVars, resVars, descVars>>

\* A getter is called on the constructed configuration.
PyGet ==
    /\ pyPc \in {"ready", "called"}
    /\ \E name \in Getters :
        LET r == getter(name, pyDefs, pyTarget)
        IN  /\ pyGetter' = name
            /\ pyResult' = r.value
            /\ pyTerm' = r.term
            /\ pyPc' = IF r.term = Running THEN "called" ELSE "raised"
    /\ UNCHANGED <<pyDefs, pyTarget>>
    /\ UNCHANGED <<syncVars, runVars, layerVars, pipeVars, resVars, descVars>>

PyNext == PyConstruct \/ PyGet

\* The default each getter is to fall back to.
DefaultOf(name) ==
    CASE name = "get_bitbake_target" -> Value(pyTarget)
      [] name = "get_machine" -> Value("qemu")
      [] name = "get_distro" -> Value("poky")
      [] name = "get_bblayers_conf_header" -> Value("")
      [] name = "get_local_conf_header" -> Value("")
      [] name = "get_proxy_config" -> Value("environment proxies")

\* C15: a getter called on a constructed scriptable configuration returns
\* the entry point's result when the document defines the entry point and
\* otherwise returns the default without raising; the construction raises
\* only when the document does not define get_repos.
C15_ScriptableDefaults ==
    /\ pyGetter # "none" =>
            /\ pyTerm = Running
            /\ pyResult = IF pyGetter \in pyDefs THEN FromDocument(pyGetter)
                          ELSE DefaultOf(pyGetter)
    /\ (pyPc = "raised" /\ pyGetter = "none") => "get_repos" \notin pyDefs

----------------------------------------------------------------------------
(* Specifications: one per component, the others held idle.                *)

SyncInit == SyncStart /\ RunIdle /\ LayerIdle /\ PipeIdle /\ ResIdle /\ PyIdle /\ DescIdle
SpecSync == SyncInit /\ [][SyncNext]_vars

RunInit == RunIdle /\ SyncIdle /\ LayerIdle /\ PipeIdle /\ ResIdle /\ PyIdle /\ DescIdle
SpecRun == RunInit /\ [][RunNext]_vars

LayerInit == LayerStart /\ SyncIdle /\ RunIdle /\ PipeIdle /\ ResIdle /\ PyIdle /\ DescIdle
SpecLayers == LayerInit /\ [][LayerNext]_vars

PipeInit == PipeStart /\ SyncIdle /\ RunIdle /\ LayerIdle /\ ResIdle /\ PyIdle /\ DescIdle
SpecPipeline == PipeInit /\ [][PipeNext]_vars

ResInit == ResStart /\ SyncIdle /\ RunIdle /\ LayerIdle /\ PipeIdle /\ PyIdle /\ DescIdle
SpecResolve == ResInit /\ [][ResNext]_vars

PyInit == PyStart /\ SyncIdle /\ RunIdle /\ LayerIdle /\ PipeIdle /\ ResIdle /\ DescIdle
SpecScript == PyInit /\ [][PyNext]_vars

DescInit ==
    DescStart /\ SyncIdle /\ RunIdle /\ LayerIdle /\ PipeIdle /\ ResIdle /\ PyIdle
SpecDescriptors == DescInit /\ [][DescNext]_vars

AnyInit == AnyStart /\ SyncIdle /\ RunIdle /\ LayerIdle /\ PipeIdle /\ PyIdle /\ DescIdle
SpecResolveAny == AnyInit /\ [][AnyNext]_vars /\ WF_vars(AnyNext)

====
